---- MODULE Spec2Model ----
(***************************************************************************)
(* preprocessing.py of processing_xgboost.ipynb (cell 06): the tabular     *)
(* preprocessor.  A run parses its arguments, loads a CSV table, rewrites  *)
(* the string cells with two regular expressions, adds two indicator       *)
(* columns, drops six columns, one-hot encodes the string columns,         *)
(* shuffles with RandomState(42), cuts the shuffled rows at                *)
(* int(0.7 * len) and int(0.9 * len), and writes four headerless CSV       *)
(* files.                                                                  *)
(*                                                                         *)
(* Strings are sequences of one-character strings, so that the regular     *)
(* expressions and the column names built by get_dummies act on            *)
(* characters.  Numeric cells are integers.                                *)
(***************************************************************************)
EXTENDS Integers, Sequences, FiniteSets, TLC

\* ------------------------------------------------------------------ bounds

\* Most rows of an input table.
MaxRows == 3
\* Longest string drawn from Alphabet for the normalization runs.
MaxLen == 3
\* Largest row count (besides ExampleRows) the split indices are computed for.
MaxN == 100
\* Rows of the one larger table, whose validation and test pieces hold two
\* rows each.
LargeRows == 11

\* One more row count the split indices are computed for: the size of the
\* bank marketing table.
ExampleRows == 41188

\* ------------------------------------------------------- program constants

\* (df["pdays"] == 999)
Sentinel == 999

\* --------------------------------------------------------------- strings

Col_job == <<"j","o","b">>
Col_pdays == <<"p","d","a","y","s">>
Col_y == <<"y">>
Col_duration == <<"d","u","r","a","t","i","o","n">>
Col_emp_var_rate == <<"e","m","p",".","v","a","r",".","r","a","t","e">>
Col_cons_price_idx == <<"c","o","n","s",".","p","r","i","c","e",".","i","d","x">>
Col_cons_conf_idx == <<"c","o","n","s",".","c","o","n","f",".","i","d","x">>
Col_euribor3m == <<"e","u","r","i","b","o","r","3","m">>
Col_nr_employed == <<"n","r",".","e","m","p","l","o","y","e","d">>
Col_no_previous_contact == <<"n","o","_","p","r","e","v","i","o","u","s","_","c","o","n","t","a","c","t">>
Col_not_working == <<"n","o","t","_","w","o","r","k","i","n","g">>
Col_y_yes == <<"y","_","y","e","s">>
Col_y_no == <<"y","_","n","o">>
Str_student == <<"s","t","u","d","e","n","t">>
Str_retired == <<"r","e","t","i","r","e","d">>
Str_unemployed == <<"u","n","e","m","p","l","o","y","e","d">>
Str_student_dot == <<"s","t","u","d","e","n","t",".">>
Str_admin_dot == <<"a","d","m","i","n",".">>
Str_admin == <<"a","d","m","i","n">>
Str_yes == <<"y","e","s">>
Str_no == <<"n","o">>
Str_a_b_c_dots == <<"a",".","b",".","c">>
Str_a_b_c == <<"a","_","b","_","c">>

\* The characters of the model in code-point order (line feed 10, '.' 46,
\* digits, '_' 95, lower-case letters): Python compares str by code point.
Ascii ==
  <<"\n", ".", "3", "_", "a", "b", "c", "d", "e", "f", "g", "h", "i", "j",
    "k", "l", "m", "n", "o", "p", "q", "r", "s", "t", "u", "v", "w", "x",
    "y", "z">>

Ord(c) == CHOOSE i \in 1..Len(Ascii) : Ascii[i] = c

RECURSIVE StrLess(_, _)
\* s < t for Python str: lexicographic by code point, a proper prefix first.
StrLess(s, t) ==
  IF t = <<>> THEN FALSE
  ELSE IF s = <<>> THEN TRUE
  ELSE IF Head(s) = Head(t) THEN StrLess(Tail(s), Tail(t))
  ELSE Ord(Head(s)) < Ord(Head(t))

RECURSIVE SortedStrs(_)
\* sorted(S) for a finite set of strings.
SortedStrs(S) ==
  IF S = {} THEN <<>>
  ELSE LET m == CHOOSE x \in S : \A z \in S \ {x} : StrLess(x, z)
       IN <<m>> \o SortedStrs(S \ {m})

\* The elements of a sequence.
Range(s) == {s[i] : i \in 1..Len(s)}

\* ------------------------------------------------- the regular expressions

\* re.sub with count=1: only the first '.' is replaced.
ReSubDotFirst(s) ==
  [i \in 1..Len(s) |->
     IF s[i] = "." /\ (\A j \in 1..(i - 1) : s[j] # ".") THEN "_" ELSE s[i]]

\* re.sub(r'\.', '_', s): every '.' is a match of the pattern and is replaced.
ReSubDot(s) == [i \in 1..Len(s) |-> IF s[i] = "." THEN "_" ELSE s[i]]

\* Python's '$' without re.MULTILINE: the end of the string, or just before a
\* line feed that is the last character of the string.
AtDollar(s, i) == i = Len(s) \/ (i = Len(s) - 1 /\ s[Len(s)] = "\n")

\* The positions where r'\_$' matches: an '_' with '$' right after it.
TrailingMatches(s) == {i \in 1..Len(s) : s[i] = "_" /\ AtDollar(s, i)}

\* re.sub(r'\_$', '', s): the matched characters are removed.
ReSubTrailing(s) ==
  LET keep == {i \in 1..Len(s) : i \notin TrailingMatches(s)}
      Nth(k) == CHOOSE i \in keep : Cardinality({j \in keep : j < i}) = k - 1
  IN [k \in 1..Cardinality(keep) |-> s[Nth(k)]]

\* ------------------------------------------- int(0.7 * n) and int(0.9 * n)

\* Unsigned integers as bit sequences, least significant bit first, so that
\* the 53-bit significands and their products stay exact.
RECURSIVE NatToBits(_)
NatToBits(c) == IF c = 0 THEN <<>> ELSE <<c % 2>> \o NatToBits(c \div 2)

RECURSIVE BitsToNat(_)
BitsToNat(b) == IF b = <<>> THEN 0 ELSE Head(b) + 2 * BitsToNat(Tail(b))

RECURSIVE Rep(_, _)
Rep(s, k) == IF k = 0 THEN <<>> ELSE s \o Rep(s, k - 1)

\* The double nearest 0.7 is 0x1.6666666666666p-1 = Significand07 * 2^-53.
Significand07 == Rep(<<0,1,1,0>>, 13) \o <<1>>
\* The double nearest 0.9 is 0x1.ccccccccccccdp-1 = Significand09 * 2^-53.
Significand09 == <<1,0,1,1>> \o Rep(<<0,0,1,1>>, 12) \o <<1>>

RECURSIVE MulBits(_, _, _)
\* b * n + c, exactly.
MulBits(b, n, c) ==
  IF b = <<>> THEN NatToBits(c)
  ELSE LET t == n * Head(b) + c
       IN <<t % 2>> \o MulBits(Tail(b), n, t \div 2)

RECURSIVE Trim(_)
\* Without its leading (most significant) zero bits.
Trim(b) == IF b # <<>> /\ b[Len(b)] = 0 THEN Trim(SubSeq(b, 1, Len(b) - 1)) ELSE b

RECURSIVE Inc(_)
Inc(b) ==
  IF b = <<>> THEN <<1>>
  ELSE IF Head(b) = 0 THEN <<1>> \o Tail(b)
  ELSE <<0>> \o Inc(Tail(b))

\* IEEE 754 round-to-nearest, ties-to-even, to a 53-bit significand: the bits
\* below the 53 leading ones are dropped, and the rest is incremented when the
\* dropped part is more than half a unit, or exactly half and the rest is odd.
RoundToDouble(p) ==
  LET q == Trim(p)
      r == Len(q) - 53
  IN IF r <= 0 THEN q
     ELSE LET keep == SubSeq(q, r + 1, Len(q))
              guard == q[r]
              sticky == \E i \in 1..(r - 1) : q[i] = 1
              up == guard = 1 /\ (sticky \/ keep[1] = 1)
          IN Rep(<<0>>, r) \o (IF up THEN Inc(keep) ELSE keep)

\* int(x * n) for the double x = significand * 2^-53 and 0 <= n < 2^53: the
\* double product, rounded once, then truncated.
IntOfProduct(significand, n) ==
  LET x == RoundToDouble(MulBits(significand, n, 0))
  IN BitsToNat(SubSeq(x, 54, Len(x)))

\* [int(0.7 * len(df)), int(0.9 * len(df))]
SplitIndices(n) == <<IntOfProduct(Significand07, n), IntOfProduct(Significand09, n)>>

\* ------------------------------------------------------------ data frames

\* A DataFrame: its column labels in order, each column's dtype, and its rows
\* in order, a row being its index label and its cells by column label.
Frame(columns, dtypes, rows) == [columns |-> columns, dtypes |-> dtypes, rows |-> rows]

NoFrame == Frame(<<>>, <<>>, <<>>)

ColumnSet(f) == Range(f.columns)

\* The columns of dtype object, in column order.
ObjectColumns(f) == SelectSeq(f.columns, LAMBDA c : f.dtypes[c] = "object")

\* DataFrame.replace(regex=..., value=...): re.sub on every str cell; the cells
\* of the numeric columns are left as they are.
ReplaceRegex(f, Sub(_)) ==
  [f EXCEPT !.rows =
     [k \in 1..Len(f.rows) |->
        [f.rows[k] EXCEPT !.cells =
           [c \in ColumnSet(f) |->
              IF f.dtypes[c] = "object" THEN Sub(f.rows[k].cells[c])
              ELSE f.rows[k].cells[c]]]]]

\* df[name] = values: a new column is appended, an existing one overwritten.
SetColumn(f, name, dtype, Value(_)) ==
  LET cols == IF name \in ColumnSet(f) THEN f.columns ELSE Append(f.columns, name)
  IN Frame(cols,
           [c \in Range(cols) |-> IF c = name THEN dtype ELSE f.dtypes[c]],
           [k \in 1..Len(f.rows) |->
              [f.rows[k] EXCEPT !.cells =
                 [c \in Range(cols) |->
                    IF c = name THEN Value(f.rows[k].cells) ELSE f.rows[k].cells[c]]]])

\* DataFrame.drop(labels, axis=1), every label being a column.
DropLabels(f, labels) ==
  LET cols == SelectSeq(f.columns, LAMBDA c : c \notin labels)
  IN Frame(cols,
           [c \in Range(cols) |-> f.dtypes[c]],
           [k \in 1..Len(f.rows) |->
              [f.rows[k] EXCEPT !.cells = [c \in Range(cols) |-> f.rows[k].cells[c]]]])

\* The values a column takes, sorted: the categories get_dummies finds.
Categories(f, c) == SortedStrs({f.rows[k].cells[c] : k \in 1..Len(f.rows)})

\* The indicator column of value v of column c is named c + '_' + v.
DummyName(c, v) == c \o <<"_">> \o v

RECURSIVE DummyColumns(_, _)
\* The indicator columns of the encoded columns enc, column by column.
DummyColumns(f, enc) ==
  IF enc = <<>> THEN <<>>
  ELSE LET cats == Categories(f, Head(enc))
       IN [i \in 1..Len(cats) |-> DummyName(Head(enc), cats[i])]
            \o DummyColumns(f, Tail(enc))

\* pd.get_dummies(df): every object column is replaced by one 0/1 column per
\* value it takes; the other columns come first, unchanged.
GetDummiesFrame(f) ==
  LET enc == ObjectColumns(f)
      kept == SelectSeq(f.columns, LAMBDA c : f.dtypes[c] # "object")
      dummies == DummyColumns(f, enc)
      cols == kept \o dummies
  IN Frame(cols,
           [c \in Range(cols) |-> IF c \in Range(kept) THEN f.dtypes[c] ELSE "uint8"],
           [k \in 1..Len(f.rows) |->
              [f.rows[k] EXCEPT !.cells =
                 [c \in Range(cols) |->
                    IF c \in Range(kept) THEN f.rows[k].cells[c]
                    ELSE IF \E e \in Range(enc) : c = DummyName(e, f.rows[k].cells[e])
                         THEN 1 ELSE 0]]])

\* RandomState(42).permutation(n), as positions from 1: the Mersenne Twister
\* seeded with 42 and numpy's shuffle give these orders for the table sizes of
\* the model.
Permutation42(n) ==
  CASE n = 0 -> <<>>
    [] n = 1 -> <<1>>
    [] n = 2 -> <<2, 1>>
    [] n = 3 -> <<1, 2, 3>>
    [] n = 4 -> <<2, 4, 1, 3>>
    [] n = 5 -> <<2, 5, 3, 1, 4>>
    [] n = 6 -> <<1, 2, 6, 3, 5, 4>>
    [] n = 11 -> <<6, 1, 10, 11, 3, 2, 9, 5, 8, 4, 7>>
    [] n = 12 -> <<11, 10, 1, 9, 6, 3, 2, 12, 5, 8, 4, 7>>

\* Without a seed the order differs from run to run: here the seeded order,
\* its reverse, or the rows as they stand.
SampleLocsUnseeded(n) ==
  {Permutation42(n), [k \in 1..n |-> Permutation42(n)[n + 1 - k]], [k \in 1..n |-> k]}

\* The row orders df.sample(frac=1, random_state=42) can return for n rows:
\* rs.choice(n, size=n, replace=False) is rs.permutation(n).
SampleLocs(n) == {Permutation42(n)}

\* np.split with the last piece starting at the first cut: rows[i1:].
NpSplitOverlapping(rows, indices) ==
  <<SubSeq(rows, 1, indices[1]),
    SubSeq(rows, indices[1] + 1, indices[2]),
    SubSeq(rows, indices[1] + 1, Len(rows))>>

\* np.split(rows, [i1, i2]): rows[0:i1], rows[i1:i2], rows[i2:].
NpSplit(rows, indices) ==
  <<SubSeq(rows, 1, indices[1]),
    SubSeq(rows, indices[1] + 1, indices[2]),
    SubSeq(rows, indices[2] + 1, Len(rows))>>

\* ------------------------------------------------------------ the inputs

\* The header of the input table: the columns the script names, in the order
\* of bank-additional-full.csv.
InputColumns ==
  <<Col_job, Col_pdays, Col_duration, Col_emp_var_rate, Col_cons_price_idx,
    Col_cons_conf_idx, Col_euribor3m, Col_nr_employed, Col_y>>

\* One raw record; the six columns dropped later hold a number.
RawRow(job, pdays, y) ==
  [c \in Range(InputColumns) |->
     IF c = Col_job THEN job
     ELSE IF c = Col_pdays THEN pdays
     ELSE IF c = Col_y THEN y
     ELSE 0]

\* The raw records the tables of the model are made of.
RowTypes ==
  { RawRow(Str_student_dot, Sentinel, Str_yes),
    RawRow(Str_admin_dot, 6, Str_no),
    RawRow(Str_retired, Sentinel, Str_no),
    RawRow(Str_unemployed, 6, Str_yes) }

RowTypeSeq ==
  << RawRow(Str_student_dot, Sentinel, Str_yes),
     RawRow(Str_admin_dot, 6, Str_no),
     RawRow(Str_retired, Sentinel, Str_no),
     RawRow(Str_unemployed, 6, Str_yes) >>

\* A table of LargeRows rows, the raw records in turn.
LargeTable == [k \in 1..LargeRows |-> RowTypeSeq[((k - 1) % Len(RowTypeSeq)) + 1]]

\* The input tables: every table of at most MaxRows raw records, and LargeTable.
Tables == UNION {[1..n -> RowTypes] : n \in 0..MaxRows} \cup {LargeTable}

\* The characters of the strings the normalization runs draw.
Alphabet == {"a", ".", "_", "\n"}

\* Every string of 1 to MaxLen characters of Alphabet, and the two values the
\* specification names.
NormStrings ==
  UNION {[1..n -> Alphabet] : n \in 1..MaxLen} \cup {Str_admin_dot, Str_a_b_c_dots}

\* The input file as read_csv finds it: absent, or a header and its records.
InputFile(exists, rows) ==
  [exists |-> exists, header |-> IF exists THEN InputColumns ELSE <<>>, rows |-> rows]

\* A file of no bytes at the input path: it opens, and holds no header line.
EmptyInputFile == [exists |-> TRUE, header |-> <<>>, rows |-> <<>>]

\* A read that lets a file it cannot load through as a table of no columns.
ReadErrorSwallowed(file) == "none"

\* The exception pd.read_csv raises on a file, or "none": the open fails on a
\* missing file, the parser finds no columns in an empty one.
ReadError(file) ==
  IF ~file.exists THEN "FileNotFoundError"
  ELSE IF file.header = <<>> THEN "EmptyDataError"
  ELSE "none"

\* --categorical_features as a list of column names: the string columns of the
\* table (the default), or a list naming a column the table does not have.
CategoricalDefault == <<Col_y, Col_job>>
CategoricalUnknown == <<Col_y, Str_a_b_c>>

\* The subdirectories of the output directory the script writes into.
OutputDirs == {"train", "validation", "test"}

\* The four artifacts, in the order the script writes them.
Artifacts == <<"train/train.csv", "validation/validation.csv", "test/test_y.csv", "test/test_x.csv">>

\* The directory of an artifact's path.
DirName(path) ==
  CASE path = "train/train.csv" -> "train"
    [] path = "validation/validation.csv" -> "validation"
    [] path = "test/test_y.csv" -> "test"
    [] path = "test/test_x.csv" -> "test"

\* A file: whether it exists, and its lines as lists of fields.  The column
\* labels of the frame it was written from are not in the file (header=False);
\* they are kept beside it to state what each field is.
NoFile == [exists |-> FALSE, columns |-> <<>>, lines |-> <<>>]

\* An artifact an earlier job left under the output directory.
OldFile == [exists |-> TRUE, columns |-> <<Col_pdays>>, lines |-> <<<<6>>>>]

\* -------------------------------------------------------------- the state

VARIABLES
  argv,             \* the --categorical_features value of the command line
  inputFile,        \* the file at filepath/filename
  dirs,             \* the subdirectories of outputpath that exist
  files,            \* the artifacts under outputpath, by path
  pc,               \* the statement the run is at, or "done" / "failed"
  args,             \* the parsed arguments
  df,               \* the data frame
  train_data,       \* the three pieces np.split returns
  validation_data,
  test_data,
  error,            \* the exception that ended the run, or "none"
  stdout,           \* what the run printed
  run,              \* 1 for the first run, 2 for the run repeated on the same input
  first,            \* what the first run left, once the second has started
  split_n,          \* the split computed alone: the row count
  split_out         \* the split computed alone: the sizes of the three pieces

\* The evaluation cells of the notebook (cells 15, 16 and 26) and predict.
VARIABLES
  nb_pc,            \* the cell or the statement of predict the notebook is at
  tmp,              \* the copies of the test artifacts under /tmp, by path
  test_x,           \* the rows of the frame cell 16 reads from /tmp/test_x.csv
  test_y,           \* the rows of the frame cell 16 reads from /tmp/test_y.csv
  caller,           \* who called predict: "cell16", "cell26", or "any"
  data,             \* predict's data: an array of rows
  batch_rows,       \* predict's rows argument
  split_array,      \* the mini-batches np.array_split returned
  loop_i,           \* the position of the for loop in split_array
  predictions,      \* predict's string, then the array it returns
  requests          \* what the endpoints received, in order

vars ==
  <<argv, inputFile, dirs, files, pc, args, df, train_data, validation_data,
    test_data, error, stdout, run, first, split_n, split_out,
    nb_pc, tmp, test_x, test_y, caller, data, batch_rows, split_array, loop_i,
    predictions, requests>>

\* The index labels of a frame's rows, in order.
Labels(f) == [k \in 1..Len(f.rows) |-> f.rows[k].label]

\* What a finished run left behind.
Outcome ==
  [pc |-> pc, error |-> error, files |-> files, stdout |-> stdout,
   train |-> Labels(train_data), validation |-> Labels(validation_data),
   test |-> Labels(test_data)]

\* A process that has not started: no arguments, no frame, nothing printed.
Fresh ==
  /\ pc = "parse_args"
  /\ args = <<>>
  /\ df = NoFrame
  /\ train_data = NoFrame
  /\ validation_data = NoFrame
  /\ test_data = NoFrame
  /\ error = "none"
  /\ stdout = <<>>

SplitIdle == split_n = 0 /\ split_out = <<>>

\* The paths of the two test artifacts cell 15 copies to /tmp.
TestArtifacts == {"test/test_x.csv", "test/test_y.csv"}

\* A notebook kernel in which predict has not been called: nothing under
\* /tmp, no frame, no request sent.
NoCall ==
  /\ caller = "none"
  /\ data = <<>>
  /\ split_array = <<>>
  /\ loop_i = 0
  /\ predictions = <<>>
  /\ requests = <<>>

NotebookIdle ==
  /\ nb_pc = "idle"
  /\ tmp = [p \in TestArtifacts |-> NoFile]
  /\ test_x = <<>>
  /\ test_y = <<>>
  /\ batch_rows = 0
  /\ NoCall

\* A first run on any table, or on a missing or an empty input file, with any
\* of the output subdirectories present; no artifact is there yet, or, before
\* a run on an input that cannot be read, the artifacts of an earlier job are.
Init ==
  /\ argv \in {CategoricalDefault, CategoricalUnknown}
  /\ inputFile \in {InputFile(FALSE, <<>>), EmptyInputFile}
                     \cup {InputFile(TRUE, t) : t \in Tables}
  /\ dirs \in SUBSET OutputDirs
  /\ files \in {[p \in Range(Artifacts) |-> NoFile]}
                 \cup (IF ReadError(inputFile) # "none"
                       THEN {[p \in Range(Artifacts) |->
                                IF DirName(p) \in dirs THEN OldFile ELSE NoFile]}
                       ELSE {})
  /\ Fresh
  /\ run = 1
  /\ first = <<>>
  /\ SplitIdle
  /\ NotebookIdle

\* A string-valued job field of any characters, in a table with both labels.
InitNormalize ==
  /\ argv = CategoricalDefault
  /\ inputFile \in {InputFile(TRUE, <<RawRow(s, Sentinel, Str_yes), RawRow(Str_admin_dot, 6, Str_no)>>) :
                      s \in NormStrings}
  /\ dirs = OutputDirs
  /\ files = [p \in Range(Artifacts) |-> NoFile]
  /\ Fresh
  /\ run = 1
  /\ first = <<>>
  /\ SplitIdle
  /\ NotebookIdle

\* -------------------------------------------------------------- the steps

\* What no statement of the script changes: the command line, the input file.
inputs == <<argv, inputFile>>
pieces == <<train_data, validation_data, test_data>>
notebook ==
  <<nb_pc, tmp, test_x, test_y, caller, data, batch_rows, split_array, loop_i,
    predictions, requests>>
\* What runs apart from the script: the split computed alone, the notebook.
split == <<split_n, split_out, notebook>>
repeat == <<run, first>>

\* An uncaught exception ends the process.
Raise(exception) == pc' = "failed" /\ error' = exception

\* args, _ = _parse_args(): the defaults, and the list given on the command
\* line.
ParseArgs ==
  /\ pc = "parse_args"
  /\ args' = [filepath |-> "/opt/ml/processing/input/",
              filename |-> "bank-additional-full.csv",
              outputpath |-> "/opt/ml/processing/output/",
              categorical_features |-> argv]
  /\ pc' = "read_csv"
  /\ UNCHANGED <<inputs, dirs, files, df, pieces, error, stdout, repeat, split>>

\* The dtype read_csv gives a column: object for text, and for every column of
\* a table without records; int64 for whole numbers.
InferredDtype(c, rows) ==
  IF rows = <<>> \/ c \in {Col_job, Col_y} THEN "object" ELSE "int64"

\* df = pd.read_csv(os.path.join(args.filepath, args.filename))
ReadCsv ==
  /\ pc = "read_csv"
  /\ IF ReadError(inputFile) = "none"
     THEN /\ df' = Frame(inputFile.header,
                         [c \in Range(inputFile.header) |-> InferredDtype(c, inputFile.rows)],
                         [k \in 1..Len(inputFile.rows) |->
                            [label |-> k - 1, cells |-> inputFile.rows[k]]])
          /\ pc' = "replace_dot"
          /\ UNCHANGED error
     ELSE /\ Raise(ReadError(inputFile))
          /\ UNCHANGED df
  /\ UNCHANGED <<inputs, dirs, files, args, pieces, stdout, repeat, split>>

\* df = df.replace(regex=r'\.', value='_')
ReplaceDot ==
  /\ pc = "replace_dot"
  /\ df' = ReplaceRegex(df, ReSubDot)
  /\ pc' = "replace_trailing"
  /\ UNCHANGED <<inputs, dirs, files, args, pieces, error, stdout, repeat, split>>

\* df = df.replace(regex=r'\_$', value='')
ReplaceTrailing ==
  /\ pc = "replace_trailing"
  /\ df' = ReplaceRegex(df, ReSubTrailing)
  /\ pc' = "no_previous_contact"
  /\ UNCHANGED <<inputs, dirs, files, args, pieces, error, stdout, repeat, split>>

\* (df["pdays"] == 999).astype(int), for one row
NoPreviousContact(cells) == IF cells[Col_pdays] = Sentinel THEN 1 ELSE 0

\* df["no_previous_contact"] = (df["pdays"] == 999).astype(int)
AddNoPreviousContact ==
  /\ pc = "no_previous_contact"
  /\ IF Col_pdays \in ColumnSet(df)
     THEN /\ df' = SetColumn(df, Col_no_previous_contact, "int64", NoPreviousContact)
          /\ pc' = "not_working"
          /\ UNCHANGED error
     ELSE /\ Raise("KeyError")
          /\ UNCHANGED df
  /\ UNCHANGED <<inputs, dirs, files, args, pieces, stdout, repeat, split>>

\* The isin list with "retired" left out.
NotWorkingJobsShort == {Str_student, Str_unemployed}

\* ["student", "retired", "unemployed"]
NotWorkingJobs == {Str_student, Str_retired, Str_unemployed}

\* df["job"].isin([...]).astype(int), for one row
NotWorking(cells) == IF cells[Col_job] \in NotWorkingJobs THEN 1 ELSE 0

\* df["not_working"] = df["job"].isin(["student", "retired", "unemployed"]).astype(int)
AddNotWorking ==
  /\ pc = "not_working"
  /\ IF Col_job \in ColumnSet(df)
     THEN /\ df' = SetColumn(df, Col_not_working, "int64", NotWorking)
          /\ pc' = "drop"
          /\ UNCHANGED error
     ELSE /\ Raise("KeyError")
          /\ UNCHANGED df
  /\ UNCHANGED <<inputs, dirs, files, args, pieces, stdout, repeat, split>>

\* The drop list with 'duration' left out.
DroppedColumnsShort ==
  {Col_emp_var_rate, Col_cons_price_idx, Col_cons_conf_idx, Col_euribor3m, Col_nr_employed}

\* ['duration', 'emp.var.rate', 'cons.price.idx', 'cons.conf.idx', 'euribor3m', 'nr.employed']
DroppedColumns ==
  {Col_duration, Col_emp_var_rate, Col_cons_price_idx, Col_cons_conf_idx,
   Col_euribor3m, Col_nr_employed}

\* df = df.drop([...], axis=1): a label that is no column raises KeyError.
DropColumns ==
  /\ pc = "drop"
  /\ IF DroppedColumns \subseteq ColumnSet(df)
     THEN /\ df' = DropLabels(df, DroppedColumns)
          /\ pc' = "get_dummies"
          /\ UNCHANGED error
     ELSE /\ Raise("KeyError")
          /\ UNCHANGED df
  /\ UNCHANGED <<inputs, dirs, files, args, pieces, stdout, repeat, split>>

\* df = pd.get_dummies(df): no columns argument; args.categorical_features is
\* not read.
GetDummies ==
  /\ pc = "get_dummies"
  /\ df' = GetDummiesFrame(df)
  /\ pc' = "split"
  /\ UNCHANGED <<inputs, dirs, files, args, pieces, error, stdout, repeat, split>>

\* train_data, validation_data, test_data =
\*   np.split(df.sample(frac=1, random_state=42), [int(0.7 * len(df)), int(0.9 * len(df))])
SampleAndSplit ==
  /\ pc = "split"
  /\ \E locs \in SampleLocs(Len(df.rows)) :
       LET sampled == [k \in 1..Len(df.rows) |-> df.rows[locs[k]]]
           parts == NpSplit(sampled, SplitIndices(Len(df.rows)))
       IN /\ train_data' = [df EXCEPT !.rows = parts[1]]
          /\ validation_data' = [df EXCEPT !.rows = parts[2]]
          /\ test_data' = [df EXCEPT !.rows = parts[3]]
  /\ pc' = "write_train"
  /\ UNCHANGED <<inputs, dirs, files, args, df, error, stdout, repeat, split>>

\* frame[c] as a one-column frame.
SelectColumn(f, c) == DropLabels(f, ColumnSet(f) \ {c})

\* pd.concat([a, b], axis=1) of two frames with the same rows.
ConcatColumns(a, b) ==
  Frame(a.columns \o b.columns,
        [c \in ColumnSet(a) \cup ColumnSet(b) |->
           IF c \in ColumnSet(a) THEN a.dtypes[c] ELSE b.dtypes[c]],
        [k \in 1..Len(a.rows) |->
           [a.rows[k] EXCEPT !.cells =
              [c \in ColumnSet(a) \cup ColumnSet(b) |->
                 IF c \in ColumnSet(a) THEN a.rows[k].cells[c] ELSE b.rows[k].cells[c]]]])

\* The frame with only y_no dropped: the label stays where get_dummies put it.
LabelInPlace(part) == DropLabels(part, {Col_y_no})

\* pd.concat([part['y_yes'], part.drop(['y_yes','y_no'], axis=1)], axis=1)
LabelFirst(part) ==
  ConcatColumns(SelectColumn(part, Col_y_yes), DropLabels(part, {Col_y_yes, Col_y_no}))

\* part.drop(['y_yes','y_no'], axis=1)
Features(part) == DropLabels(part, {Col_y_yes, Col_y_no})

\* The lines to_csv(index=False, header=False) writes: one per row, the cells
\* in column order, no index label and no header line.
CsvLines(f) ==
  [k \in 1..Len(f.rows) |-> [j \in 1..Len(f.columns) |-> f.rows[k].cells[f.columns[j]]]]

\* A write that makes the directory it needs.
OpensAlways(path, existing) == TRUE

\* to_csv opens the path for writing: the directory has to exist; none is made.
Opens(path, existing) == DirName(path) \in existing

\* A write whose failure is passed over: the run goes on to the next statement.
ToCsvBestEffort(f, path, next) ==
  /\ files' = IF Opens(path, dirs)
              THEN [files EXCEPT ![path] =
                      [exists |-> TRUE, columns |-> f.columns, lines |-> CsvLines(f)]]
              ELSE files
  /\ pc' = next
  /\ UNCHANGED error

\* frame.to_csv(os.path.join(args.outputpath, path), index=False, header=False),
\* then the statement after it.
ToCsv(f, path, next) ==
  IF Opens(path, dirs)
  THEN /\ files' = [files EXCEPT ![path] =
                      [exists |-> TRUE, columns |-> f.columns, lines |-> CsvLines(f)]]
       /\ pc' = next
       /\ UNCHANGED error
  ELSE /\ Raise("FileNotFoundError")
       /\ UNCHANGED files

\* Line 211: train/train.csv.
WriteTrain ==
  /\ pc = "write_train"
  /\ IF {Col_y_yes, Col_y_no} \subseteq ColumnSet(train_data)
     THEN ToCsv(LabelFirst(train_data), Artifacts[1], "write_validation")
     ELSE Raise("KeyError") /\ UNCHANGED files
  /\ UNCHANGED <<inputs, dirs, args, df, pieces, stdout, repeat, split>>

\* Line 212: validation/validation.csv.
WriteValidation ==
  /\ pc = "write_validation"
  /\ IF {Col_y_yes, Col_y_no} \subseteq ColumnSet(validation_data)
     THEN ToCsv(LabelFirst(validation_data), Artifacts[2], "write_test_y")
     ELSE Raise("KeyError") /\ UNCHANGED files
  /\ UNCHANGED <<inputs, dirs, args, df, pieces, stdout, repeat, split>>

\* The label column with its rows in the reverse order.
LabelColumnReversed(part) ==
  LET col == SelectColumn(part, Col_y_yes)
  IN [col EXCEPT !.rows = [k \in 1..Len(col.rows) |-> col.rows[Len(col.rows) + 1 - k]]]

\* test_data['y_yes']
LabelColumn(part) == SelectColumn(part, Col_y_yes)

\* Line 213: test/test_y.csv.
WriteTestY ==
  /\ pc = "write_test_y"
  /\ IF Col_y_yes \in ColumnSet(test_data)
     THEN ToCsv(LabelColumn(test_data), Artifacts[3], "write_test_x")
     ELSE Raise("KeyError") /\ UNCHANGED files
  /\ UNCHANGED <<inputs, dirs, args, df, pieces, stdout, repeat, split>>

\* Line 214: test/test_x.csv.
WriteTestX ==
  /\ pc = "write_test_x"
  /\ IF {Col_y_yes, Col_y_no} \subseteq ColumnSet(test_data)
     THEN ToCsv(Features(test_data), Artifacts[4], "print")
     ELSE Raise("KeyError") /\ UNCHANGED files
  /\ UNCHANGED <<inputs, dirs, args, df, pieces, stdout, repeat, split>>

\* print("## Processing complete. Exiting."), and the process ends.
PrintComplete ==
  /\ pc = "print"
  /\ stdout' = Append(stdout, "## Processing complete. Exiting.")
  /\ pc' = "done"
  /\ UNCHANGED <<inputs, dirs, files, args, df, pieces, error, repeat, split>>

Terminated == pc \in {"done", "failed"}

\* The script is run again on the same input and the same output directory,
\* which holds what the first run left there.
Rerun ==
  /\ Terminated
  /\ run = 1
  /\ first' = Outcome
  /\ run' = 2
  /\ pc' = "parse_args"
  /\ args' = <<>>
  /\ df' = NoFrame
  /\ train_data' = NoFrame
  /\ validation_data' = NoFrame
  /\ test_data' = NoFrame
  /\ error' = "none"
  /\ stdout' = <<>>
  /\ UNCHANGED <<inputs, dirs, files, split>>

Next ==
  \/ ParseArgs
  \/ ReadCsv
  \/ ReplaceDot
  \/ ReplaceTrailing
  \/ AddNoPreviousContact
  \/ AddNotWorking
  \/ DropColumns
  \/ GetDummies
  \/ SampleAndSplit
  \/ WriteTrain
  \/ WriteValidation
  \/ WriteTestY
  \/ WriteTestX
  \/ PrintComplete
  \/ Rerun

\* Runs of the preprocessor on every input of Init.
Spec == Init /\ [][Next]_vars

\* Runs of the preprocessor on tables whose job field is any string.
SpecNormalize == InitNormalize /\ [][Next]_vars

\* ------------------------------------------------- the split, computed alone

\* The sizes of the three pieces np.split cuts n rows into.
SplitSizes(n) ==
  LET parts == NpSplit([k \in 1..n |-> k], SplitIndices(n))
  IN <<Len(parts[1]), Len(parts[2]), Len(parts[3])>>

InitSplit ==
  /\ argv = CategoricalDefault
  /\ inputFile = InputFile(FALSE, <<>>)
  /\ dirs = {}
  /\ files = [p \in Range(Artifacts) |-> NoFile]
  /\ Fresh
  /\ run = 1
  /\ first = <<>>
  /\ split_n \in 0..MaxN \cup {ExampleRows}
  /\ split_out = <<>>
  /\ NotebookIdle

ApplySplit ==
  /\ split_out = <<>>
  /\ split_out' = SplitSizes(split_n)
  /\ UNCHANGED <<inputs, dirs, files, pc, args, df, pieces, error, stdout, repeat, split_n,
                 notebook>>

NextSplit == ApplySplit

\* The split of n rows, for every n up to MaxN and for ExampleRows.
SpecSplit == InitSplit /\ [][NextSplit]_vars

\* ------------------------------------------- the notebook: cells 15, 16, 26

\* The rows argument predict has when none is given.
DefaultRows == 500

\* The number of column names cell 16 gives read_csv: '0' to '58'.
NumNames == 59

\* The float nan, which read_csv puts where a line has no field for a name; no
\* field the script writes is negative.
NaN == -1

\* The largest array predict is run on alone, and the largest rows argument
\* besides DefaultRows.
MaxData == 4
MaxBatchRows == 3

\* The rows of the arrays predict is run on alone.
DataRows == {<<0, 6>>, <<1, 6>>, <<1, 999>>}

\* pd.read_csv(path, names=[...]) on a file of lines with at most count fields:
\* a row per line, a cell per name, nan for the names past the line's fields.
ReadCsvNames(lines, count) ==
  [k \in 1..Len(lines) |->
     [j \in 1..count |-> IF j <= Len(lines[k]) THEN lines[k][j] ELSE NaN]]

\* test_x.drop(test_x.columns[0], axis=1).to_numpy(): every row without its
\* first cell.
DropFirstColumn(frame) == [k \in 1..Len(frame) |-> Tail(frame[k])]

\* int(data.shape[0] / float(rows) + 1).  The quotient of two integers below
\* 2^26 is an integer or at least 1/rows away from one, far more than the
\* rounding of the division and of the sum: the result is the whole part of
\* n / rows, plus one.
Sections(n, rows) == n \div rows + 1

\* A split that cuts sections of equal size and leaves the remainder out.
ArraySplitTruncating(a, k) ==
  LET each == Len(a) \div k
  IN [j \in 1..k |-> SubSeq(a, (j - 1) * each + 1, j * each)]

\* np.array_split(a, k): k consecutive sections, the first Len(a) % k of them
\* one row longer than the others.
ArraySplit(a, k) ==
  LET each == Len(a) \div k
      extras == Len(a) % k
      Start(j) == (j - 1) * each + (IF j - 1 < extras THEN j - 1 ELSE extras)
  IN [j \in 1..k |-> SubSeq(a, Start(j) + 1, Start(j + 1))]

\* The prediction of an endpoint's model for a row, left uninterpreted.
Score(endpoint, row) == <<endpoint, row>>

\* The text of a response and of predict's string, as tokens: a number or a
\* comma.
Comma == [sep |-> TRUE, num |-> <<>>]
Number(x) == [sep |-> FALSE, num |-> x]

\* predictor.predict(array).decode('utf-8'): the scores of the rows of the
\* mini-batch, one per row, separated by commas.
Response(endpoint, array) ==
  [i \in 1..(2 * Len(array) - 1) |->
     IF i % 2 = 1 THEN Number(Score(endpoint, array[(i + 1) \div 2])) ELSE Comma]

\* ','.join([a, b])
JoinComma(a, b) == a \o <<Comma>> \o b

\* text[1:]
FromSecond(text) == IF text = <<>> THEN <<>> ELSE Tail(text)

\* np.fromstring(text, sep=','): a number, a separator, and so on; it stops at
\* the end of the text, also right after a separator, and where no number is.
RECURSIVE FromString(_)
FromString(text) ==
  IF text = <<>> \/ Head(text).sep THEN <<>>
  ELSE <<Head(text).num>> \o
       (IF Len(text) >= 2 /\ text[2].sep THEN FromString(Tail(Tail(text))) ELSE <<>>)

\* The predictor each caller hands to predict.
Predictor(who) ==
  CASE who = "cell16" -> "xgb_predictor"
    [] who = "cell26" -> "tuner_predictor"
    [] OTHER -> "predictor"

\* The cell after a call of predict has returned.
AfterCall(who) == IF who = "cell16" THEN "cell26" ELSE "end"

\* What the notebook's cells never touch: the script's process and its files.
job == <<inputs, dirs, files, pc, args, df, pieces, error, stdout, repeat, split_n, split_out>>

\* Cell 15: aws s3 cp of test_x.csv and test_y.csv to /tmp, once the job has
\* finished and its outputs are uploaded.
Cell15 ==
  /\ nb_pc = "cell15"
  /\ pc = "done"
  /\ tmp' = [p \in TestArtifacts |-> files[p]]
  /\ nb_pc' = "cell16"
  /\ UNCHANGED <<job, test_x, test_y, caller, data, batch_rows, split_array, loop_i,
                 predictions, requests>>

\* Cell 16: the two read_csv, then the call
\* predict(test_x.drop(test_x.columns[0], axis=1).to_numpy(), xgb_predictor).
Cell16 ==
  /\ nb_pc = "cell16"
  /\ test_x' = ReadCsvNames(tmp["test/test_x.csv"].lines, NumNames)
  /\ test_y' = ReadCsvNames(tmp["test/test_y.csv"].lines, 1)
  /\ caller' = "cell16"
  /\ data' = DropFirstColumn(test_x')
  /\ batch_rows' = DefaultRows
  /\ nb_pc' = "array_split"
  /\ UNCHANGED <<job, tmp, split_array, loop_i, predictions, requests>>

\* Cell 26: predict(test_x.to_numpy(), tuner_predictor).
Cell26 ==
  /\ nb_pc = "cell26"
  /\ caller' = "cell26"
  /\ data' = test_x
  /\ batch_rows' = DefaultRows
  /\ nb_pc' = "array_split"
  /\ UNCHANGED <<job, tmp, test_x, test_y, split_array, loop_i, predictions, requests>>

\* predict, its first two statements: split_array = np.array_split(...),
\* predictions = ''.
PredictSplit ==
  /\ nb_pc = "array_split"
  /\ split_array' = ArraySplit(data, Sections(Len(data), batch_rows))
  /\ predictions' = <<>>
  /\ loop_i' = 1
  /\ nb_pc' = "for"
  /\ UNCHANGED <<job, tmp, test_x, test_y, caller, data, batch_rows, requests>>

\* One turn of the loop: the mini-batch goes to the endpoint and the response
\* is joined to the string.  A mini-batch of no rows may be refused before it
\* is sent (the CSV serializer of cell 14 takes no empty array): the exception
\* ends predict.
PredictBatch ==
  /\ nb_pc = "for"
  /\ loop_i <= Len(split_array)
  /\ LET array == split_array[loop_i]
     IN \E accepted \in (IF array = <<>> THEN BOOLEAN ELSE {TRUE}) :
          IF accepted
          THEN /\ requests' = Append(requests,
                                     [endpoint |-> Predictor(caller), payload |-> array])
               /\ predictions' = JoinComma(predictions, Response(Predictor(caller), array))
               /\ loop_i' = loop_i + 1
               /\ UNCHANGED nb_pc
          ELSE /\ nb_pc' = "raised"
               /\ UNCHANGED <<requests, predictions, loop_i>>
  /\ UNCHANGED <<job, tmp, test_x, test_y, caller, data, batch_rows, split_array>>

\* return np.fromstring(predictions[1:], sep=','), assigned to the notebook's
\* predictions.
PredictReturn ==
  /\ nb_pc = "for"
  /\ loop_i > Len(split_array)
  /\ predictions' = FromString(FromSecond(predictions))
  /\ nb_pc' = AfterCall(caller)
  /\ UNCHANGED <<job, tmp, test_x, test_y, caller, data, batch_rows, split_array, loop_i,
                 requests>>

NextPredict ==
  \/ PredictSplit
  \/ PredictBatch
  \/ PredictReturn

\* The job on a table that can be read, all three subdirectories there, and
\* the notebook before cell 15.
InitEvaluate ==
  /\ argv = CategoricalDefault
  /\ inputFile \in {InputFile(TRUE, t) : t \in Tables}
  /\ dirs = OutputDirs
  /\ files = [p \in Range(Artifacts) |-> NoFile]
  /\ Fresh
  /\ run = 1
  /\ first = <<>>
  /\ SplitIdle
  /\ nb_pc = "cell15"
  /\ tmp = [p \in TestArtifacts |-> NoFile]
  /\ test_x = <<>>
  /\ test_y = <<>>
  /\ batch_rows = 0
  /\ NoCall

NextEvaluate ==
  \/ Next
  \/ Cell15
  \/ Cell16
  \/ Cell26
  \/ NextPredict

\* The job, then the evaluation cells of the notebook on what it wrote.
SpecEvaluate == InitEvaluate /\ [][NextEvaluate]_vars

\* predict about to run on an array of at most MaxData rows, with a rows
\* argument of at most MaxBatchRows or the default.
InitPredict ==
  /\ argv = CategoricalDefault
  /\ inputFile = InputFile(FALSE, <<>>)
  /\ dirs = {}
  /\ files = [p \in Range(Artifacts) |-> NoFile]
  /\ Fresh
  /\ run = 1
  /\ first = <<>>
  /\ SplitIdle
  /\ nb_pc = "array_split"
  /\ tmp = [p \in TestArtifacts |-> NoFile]
  /\ test_x = <<>>
  /\ test_y = <<>>
  /\ caller = "any"
  /\ data \in UNION {[1..n -> DataRows] : n \in 0..MaxData}
  /\ batch_rows \in 1..MaxBatchRows \cup {DefaultRows}
  /\ split_array = <<>>
  /\ loop_i = 0
  /\ predictions = <<>>
  /\ requests = <<>>

\* predict on every array and rows argument of InitPredict.
SpecPredict == InitPredict /\ [][NextPredict]_vars

\* ------------------------------------------------------------ properties

\* The statements after the split, while the three pieces are in hand.
AfterSplit ==
  {"write_train", "write_validation", "write_test_y", "write_test_x", "print", "done"}

\* The raw record a row of a frame was read from.
RawOf(row) == inputFile.rows[row.label + 1]

\* The input can be read and holds both labels.
WellFormedInput ==
  /\ inputFile.exists
  /\ \E k \in 1..Len(inputFile.rows) : inputFile.rows[k][Col_y] = Str_yes
  /\ \E k \in 1..Len(inputFile.rows) : inputFile.rows[k][Col_y] = Str_no

AllWritten == \A p \in Range(Artifacts) : files[p].exists

\* C1: after the shuffle-and-split step the train, validation and test pieces
\* are pairwise disjoint and together hold every derived record exactly once:
\* their row counts add up to the derived-record count, and every original row
\* is in exactly one piece.
C1_PartitionsCoverExactlyOnce ==
  pc \in AfterSplit =>
    LET all == train_data.rows \o validation_data.rows \o test_data.rows
        tr == Range(Labels(train_data))
        va == Range(Labels(validation_data))
        te == Range(Labels(test_data))
    IN /\ Len(train_data.rows) + Len(validation_data.rows) + Len(test_data.rows)
            = Len(df.rows)
       /\ Len(df.rows) = Len(inputFile.rows)
       /\ tr \cap va = {} /\ tr \cap te = {} /\ va \cap te = {}
       /\ \A k \in 1..Len(df.rows) :
            Cardinality({i \in 1..Len(all) : all[i] = df.rows[k]}) = 1
       /\ \A k \in 1..Len(inputFile.rows) :
            Cardinality({i \in 1..Len(all) : all[i].label = k - 1}) = 1

\* A finished run whose three pieces all hold rows.
C1_Witness ==
  /\ pc = "done"
  /\ train_data.rows # <<>>
  /\ validation_data.rows # <<>>
  /\ test_data.rows # <<>>

\* C2: for N rows the pieces have floor(0.7 N), floor(0.9 N) - floor(0.7 N)
\* and N - floor(0.9 N) rows.
C2_SizesAreFloors ==
  split_out # <<>> =>
    split_out = << (7 * split_n) \div 10,
                   (9 * split_n) \div 10 - (7 * split_n) \div 10,
                   split_n - (9 * split_n) \div 10 >>

\* The example of C2: 41188 rows are cut into 28831, 8238 and 4119.
SplitExample ==
  (split_out # <<>> /\ split_n = 41188) => split_out = <<28831, 8238, 4119>>

\* C3: a second run on the same input ends as the first did: the same rows in
\* the same pieces at the same positions, and the same four files.
C3_Deterministic == (run = 2 /\ Terminated) => Outcome = first

\* A second run that finished, with a train piece of several rows.
C3_Witness ==
  /\ run = 2
  /\ pc = "done"
  /\ Len(train_data.rows) >= 2
  /\ AllWritten

\* The six columns C4 names.
PrunedClaimed ==
  {Col_duration, Col_emp_var_rate, Col_cons_price_idx, Col_cons_conf_idx,
   Col_euribor3m, Col_nr_employed}

\* The columns of the feature fields of an artifact: all of test_x.csv, all
\* after the first of train.csv and validation.csv.
FeatureColumns(path) ==
  IF path = "test/test_x.csv" THEN files[path].columns ELSE Tail(files[path].columns)

\* C4: the feature fields of every line written hold none of the six pruned
\* columns and neither y_yes nor y_no.
C4_FeaturesExcludePrunedAndLabels ==
  \A path \in {"train/train.csv", "validation/validation.csv", "test/test_x.csv"} :
    files[path].exists =>
      /\ Range(FeatureColumns(path)) \cap (PrunedClaimed \cup {Col_y_yes, Col_y_no}) = {}
      /\ \A k \in 1..Len(files[path].lines) :
           Len(files[path].lines[k]) = Len(files[path].columns)

\* All four artifacts written, the three with features holding lines.
C4_Witness ==
  /\ pc = "done"
  /\ \A path \in {"train/train.csv", "validation/validation.csv", "test/test_x.csv"} :
       files[path].exists /\ files[path].lines # <<>>

\* C5: for every row of the input, no_previous_contact is 1 exactly when the
\* row's source pdays is 999, and not_working is 1 exactly when the row's job
\* category (the job field as normalized) is student, retired or unemployed;
\* each is 0 otherwise.
C5_Indicators ==
  /\ pc \in {"not_working", "drop", "get_dummies", "split"} \cup AfterSplit =>
       /\ Len(df.rows) = Len(inputFile.rows)
       /\ \A k \in 1..Len(df.rows) :
            df.rows[k].cells[Col_no_previous_contact]
              = IF RawOf(df.rows[k])[Col_pdays] = 999 THEN 1 ELSE 0
  /\ pc \in {"drop", "get_dummies"} =>
       \A k \in 1..Len(df.rows) :
         df.rows[k].cells[Col_not_working]
           = IF df.rows[k].cells[Col_job] \in {Str_student, Str_retired, Str_unemployed}
             THEN 1 ELSE 0

\* Both indicators are set, on a table with a "student." row (not working once
\* normalized), a "retired" row, a working row, and both values of pdays.
C5_Witness ==
  /\ pc = "get_dummies"
  /\ \E k \in 1..Len(df.rows) :
       /\ RawOf(df.rows[k])[Col_job] = Str_student_dot
       /\ df.rows[k].cells[Col_not_working] = 1
       /\ df.rows[k].cells[Col_no_previous_contact] = 1
  /\ \E k \in 1..Len(df.rows) :
       /\ df.rows[k].cells[Col_job] = Str_retired
       /\ df.rows[k].cells[Col_not_working] = 1
  /\ \E k \in 1..Len(df.rows) :
       /\ df.rows[k].cells[Col_not_working] = 0
       /\ df.rows[k].cells[Col_no_previous_contact] = 0

\* The feature cells of a derived record: all its columns but y_yes and y_no,
\* in the frame's column order.
FeatureCells(row) ==
  LET cols == SelectSeq(df.columns, LAMBDA c : c \notin {Col_y_yes, Col_y_no})
  IN [j \in 1..Len(cols) |-> row.cells[cols[j]]]

\* The line of a record with its label first.
LabelledLine(row) == <<row.cells[Col_y_yes]>> \o FeatureCells(row)

\* C6: every line of train.csv and validation.csv is its record's y_yes
\* followed by the record's feature cells, one line per record and no header
\* line; test_x.csv lines hold only the feature cells and test_y.csv lines only
\* y_yes.
C6_FileLayout ==
  /\ pc \in {"write_validation", "write_test_y", "write_test_x", "print", "done"} =>
       /\ files["train/train.csv"].exists
       /\ files["train/train.csv"].lines
            = [k \in 1..Len(train_data.rows) |-> LabelledLine(train_data.rows[k])]
  /\ pc \in {"write_test_y", "write_test_x", "print", "done"} =>
       /\ files["validation/validation.csv"].exists
       /\ files["validation/validation.csv"].lines
            = [k \in 1..Len(validation_data.rows) |-> LabelledLine(validation_data.rows[k])]
  /\ pc \in {"write_test_x", "print", "done"} =>
       /\ files["test/test_y.csv"].exists
       /\ files["test/test_y.csv"].lines
            = [k \in 1..Len(test_data.rows) |-> <<test_data.rows[k].cells[Col_y_yes]>>]
  /\ pc \in {"print", "done"} =>
       /\ files["test/test_x.csv"].exists
       /\ files["test/test_x.csv"].lines
            = [k \in 1..Len(test_data.rows) |-> FeatureCells(test_data.rows[k])]

\* A finished run with lines in all four artifacts, and a train line whose
\* label differs from its first feature cell.
C6_Witness ==
  /\ pc = "done"
  /\ \A p \in Range(Artifacts) : files[p].exists /\ files[p].lines # <<>>
  /\ \E k \in 1..Len(files["train/train.csv"].lines) :
       files["train/train.csv"].lines[k][1] = 1

\* C7: line i of test_x.csv and line i of test_y.csv come from the same derived
\* record, the i-th of the test piece, so that joined line by line they give
\* the test piece's rows, label and features, without y_no.
C7_TestRoundTrip ==
  pc \in {"print", "done"} =>
    LET x == files["test/test_x.csv"].lines
        y == files["test/test_y.csv"].lines
    IN /\ Len(x) = Len(test_data.rows)
       /\ Len(y) = Len(test_data.rows)
       /\ Range(files["test/test_y.csv"].columns \o files["test/test_x.csv"].columns)
            = ColumnSet(test_data) \ {Col_y_no}
       /\ \A i \in 1..Len(test_data.rows) :
            /\ \E k \in 1..Len(df.rows) : df.rows[k] = test_data.rows[i]
            /\ Len(y[i]) = 1
            /\ y[i] \o x[i] = LabelledLine(test_data.rows[i])

\* A finished run whose test piece holds two rows with different labels.
C7_Witness ==
  /\ pc = "done"
  /\ Len(test_data.rows) = 2
  /\ files["test/test_y.csv"].lines[1] # files["test/test_y.csv"].lines[2]

\* The statements at which the string columns stand normalized.
Normalized == {"no_previous_contact", "not_working", "drop", "get_dummies"}

\* Every '.' replaced by '_'.
DotsReplaced(s) == [i \in 1..Len(s) |-> IF s[i] = "." THEN "_" ELSE s[i]]

\* C8 as stated: every '.' replaced by '_', then one trailing '_' removed if
\* the value ends with one.
NormalizedAsStated(s) ==
  LET t == DotsReplaced(s)
  IN IF t # <<>> /\ t[Len(t)] = "_" THEN SubSeq(t, 1, Len(t) - 1) ELSE t

\* C8 (as stated): normalization maps every string field value to the value
\* with each '.' replaced by '_' and then one trailing '_' removed if present,
\* and no string field holds a '.' afterwards.
C8_NormalizationAsStated ==
  pc \in Normalized =>
    \A k \in 1..Len(df.rows) : \A c \in {Col_job, Col_y} :
      /\ df.rows[k].cells[c] = NormalizedAsStated(RawOf(df.rows[k])[c])
      /\ "." \notin Range(df.rows[k].cells[c])

\* C8 as amended: the '_' removed is the one at the end of the value or the one
\* right before a line feed that ends the value.
NormalizedAmended(s) ==
  LET t == DotsReplaced(s)
      n == Len(t)
  IN IF n >= 1 /\ t[n] = "_" THEN SubSeq(t, 1, n - 1)
     ELSE IF n >= 2 /\ t[n] = "\n" /\ t[n - 1] = "_" THEN SubSeq(t, 1, n - 2) \o <<"\n">>
     ELSE t

\* C8 (amended): normalization maps every string field value to the value with
\* each '.' replaced by '_' and then one '_' removed if it stands at the end of
\* the value or right before a final line feed; no string field holds a '.'
\* afterwards.
C8_Normalization ==
  pc \in Normalized =>
    \A k \in 1..Len(df.rows) : \A c \in {Col_job, Col_y} :
      /\ df.rows[k].cells[c] = NormalizedAmended(RawOf(df.rows[k])[c])
      /\ "." \notin Range(df.rows[k].cells[c])

\* "a.b.c" has become "a_b_c" and "admin." has become "admin".
C8_Witness ==
  /\ pc = "no_previous_contact"
  /\ \E k \in 1..Len(df.rows) :
       RawOf(df.rows[k])[Col_job] = Str_a_b_c_dots /\ df.rows[k].cells[Col_job] = Str_a_b_c
  /\ \E k \in 1..Len(df.rows) :
       RawOf(df.rows[k])[Col_job] = Str_admin_dot /\ df.rows[k].cells[Col_job] = Str_admin

\* C9: a run whose --categorical_features names a column the table does not
\* have fails at the encoding step and writes no file: on a readable table
\* with both labels it never gets past get_dummies, and no artifact exists.
C9_UnknownCategoricalFails ==
  (run = 1 /\ WellFormedInput
     /\ \E c \in Range(argv) : c \notin Range(inputFile.header)) =>
    /\ pc \notin {"split"} \cup AfterSplit
    /\ \A p \in Range(Artifacts) : ~files[p].exists

\* C10 (as stated): a run on a readable table with both labels ends with the
\* three subdirectories there, whichever of them existed at its start, and
\* with all four artifacts written.
C10_CreatesSubdirectories ==
  (run = 1 /\ Terminated /\ WellFormedInput) =>
    /\ pc = "done"
    /\ dirs = OutputDirs
    /\ AllWritten

\* The artifact each write statement writes.
WritePath(at) ==
  CASE at = "write_train" -> "train/train.csv"
    [] at = "write_validation" -> "validation/validation.csv"
    [] at = "write_test_y" -> "test/test_y.csv"
    [] at = "write_test_x" -> "test/test_x.csv"

WriteStatements == {"write_train", "write_validation", "write_test_y", "write_test_x"}

\* C10 (amended): no step creates a subdirectory; a write into a subdirectory
\* that does not exist ends the run, failed, with no file written by it; and a
\* run finishes only with all three subdirectories there and all four
\* artifacts written.
C10_NoSubdirectoryCreated ==
  /\ [][ /\ dirs' = dirs
         /\ (pc \in WriteStatements /\ DirName(WritePath(pc)) \notin dirs) =>
              (pc' = "failed" /\ files' = files) ]_vars
  /\ [](pc = "done" => (dirs = OutputDirs /\ AllWritten))

\* A first run on a well-formed table that wrote train.csv and validation.csv
\* and failed at test_y.csv, test/ being absent.
C10_Witness ==
  /\ run = 1
  /\ WellFormedInput
  /\ dirs = {"train", "validation"}
  /\ pc = "failed"
  /\ error = "FileNotFoundError"
  /\ files["train/train.csv"].exists
  /\ files["validation/validation.csv"].exists
  /\ ~files["test/test_y.csv"].exists
  /\ ~files["test/test_x.csv"].exists

\* The input file is missing, or holds nothing read_csv can load.
CannotBeRead == ~inputFile.exists \/ inputFile.header = <<>>

\* C11: when the input file is missing or cannot be read, the run fails at the
\* load step with the read error (FileNotFoundError for a missing file,
\* EmptyDataError for an empty one), the failed process takes no further step,
\* and no step of the run creates or changes an artifact or a directory:
\* nothing after the load is reached and nothing is printed.
C11_ReadFailureLeavesOutputs ==
  /\ [][CannotBeRead =>
         /\ files' = files
         /\ dirs' = dirs
         /\ (pc = "read_csv" =>
               /\ pc' = "failed"
               /\ error' = IF inputFile.exists THEN "EmptyDataError"
                           ELSE "FileNotFoundError")
         /\ (pc = "failed" => run' = run + 1 /\ pc' = "parse_args")]_vars
  /\ [](CannotBeRead =>
         /\ pc \in {"parse_args", "read_csv", "failed"}
         /\ stdout = <<>>
         /\ pc = "failed" => error \in {"FileNotFoundError", "EmptyDataError"})

\* A run on a missing input has failed, the artifacts of an earlier job in
\* place.
C11_Witness ==
  /\ ~inputFile.exists
  /\ pc = "failed"
  /\ error = "FileNotFoundError"
  /\ \A p \in Range(Artifacts) : files[p] = OldFile

\* The write statements and the statement after them, as C12 orders them.
WriteSequence == <<"write_train", "write_validation", "write_test_y", "write_test_x", "print">>

\* C12: the artifacts are written in the order train.csv, validation.csv,
\* test_y.csv, test_x.csv: each write statement either writes its own artifact,
\* changes no other and hands over to the next statement, or fails and ends
\* the run with every artifact as it was; a write statement is reached only
\* from the one before it; no other statement touches an artifact; a failed
\* process takes no further step; so an artifact is there only with all the
\* earlier ones, and the completion message is printed only by a finished run
\* with all four written.
C12_WritesInOrder ==
  /\ [][\A k \in 1..4 :
         /\ pc = WriteSequence[k] =>
              \/ /\ pc' = WriteSequence[k + 1]
                 /\ files'[WritePath(pc)].exists
                 /\ \A p \in Range(Artifacts) \ {WritePath(pc)} : files'[p] = files[p]
              \/ /\ pc' = "failed"
                 /\ files' = files
                 /\ stdout' = stdout
         /\ (pc' = WriteSequence[k + 1] /\ pc' # pc) => pc = WriteSequence[k]]_vars
  /\ [][pc \notin WriteStatements => files' = files]_vars
  /\ [][pc = "failed" => run' = run + 1]_vars
  /\ [](~CannotBeRead =>
         \A k \in 1..4 : files[WritePath(WriteSequence[k])].exists =>
           \A j \in 1..k : files[WritePath(WriteSequence[j])].exists)
  /\ [](stdout # <<>> =>
         /\ stdout = <<"## Processing complete. Exiting.">>
         /\ pc = "done"
         /\ AllWritten)

\* A first run that wrote train.csv and failed at validation.csv, validation/
\* being absent: train.csv is in place, nothing else is, nothing was printed.
C12_Witness ==
  /\ run = 1
  /\ "validation" \notin dirs
  /\ pc = "failed"
  /\ error = "FileNotFoundError"
  /\ files["train/train.csv"].exists
  /\ files["train/train.csv"].lines # <<>>
  /\ \A p \in Range(Artifacts) \ {"train/train.csv"} : ~files[p].exists
  /\ stdout = <<>>

\* C15: normalization leaves every string field value that holds no '.'
\* unchanged, one that ends in '_' included.
C15_NoDotLeftUnchanged ==
  pc \in Normalized =>
    \A k \in 1..Len(df.rows) : \A c \in {Col_job, Col_y} :
      "." \notin Range(RawOf(df.rows[k])[c]) =>
        df.rows[k].cells[c] = RawOf(df.rows[k])[c]

\* The rows of a sequence of arrays, one after the other.
RECURSIVE Flatten(_)
Flatten(arrays) ==
  IF arrays = <<>> THEN <<>> ELSE Head(arrays) \o Flatten(Tail(arrays))

\* The payload rows an endpoint has received, in the order they were sent.
PayloadRows(endpoint) ==
  LET To(q) == q.endpoint = endpoint
      sent == SelectSeq(requests, To)
  IN Flatten([j \in 1..Len(sent) |-> sent[j].payload])

\* C13: nothing but the target is taken from the test data before it is sent:
\* test_x.csv has the columns of train.csv after its label, in their order;
\* every payload row sent to the xgb endpoint, and every one sent to the tuned
\* model's endpoint, carries all the fields of its line of test_x.csv, in the
\* line's order; and the rows sent to the two endpoints have the same columns.
C13_PayloadCarriesAllFeatures ==
  LET file == tmp["test/test_x.csv"]
      width == Len(file.columns)
      xgb == PayloadRows("xgb_predictor")
      tuned == PayloadRows("tuner_predictor")
      AllFields(sent) ==
        \A i \in 1..Len(sent) :
          /\ i <= Len(file.lines)
          /\ Len(sent[i]) >= width
          /\ SubSeq(sent[i], 1, width) = file.lines[i]
  IN file.exists =>
       /\ file.columns = Tail(files["train/train.csv"].columns)
       /\ AllFields(xgb)
       /\ AllFields(tuned)
       /\ (xgb # <<>> /\ tuned # <<>>) => Len(xgb[1]) = Len(tuned[1])

\* The statements of predict after the split, and its two ends.
AfterArraySplit == {"for", "end", "raised"}

\* C14: predict cuts the n rows of data into floor(n / rows) + 1 mini-batches
\* which, laid end to end, are the rows of data in their order (consecutive,
\* order kept, every row once), none longer than rows; the endpoint receives
\* the mini-batches one request each, in their order; and what predict returns
\* is the predictions of the batches one after the other: one prediction per
\* row given, n entries, entry i the prediction for row i of data.
C14_PredictBatches ==
  nb_pc \in AfterArraySplit =>
    LET n == Len(data)
        k == Len(split_array)
    IN /\ k = n \div batch_rows + 1
       /\ Flatten(split_array) = data
       /\ \A j \in 1..k : Len(split_array[j]) <= batch_rows
       /\ Len(requests) = loop_i - 1
       /\ \A j \in 1..Len(requests) :
            requests[j] = [endpoint |-> "predictor", payload |-> split_array[j]]
       /\ nb_pc = "end" =>
            /\ Len(requests) = k
            /\ predictions =
                 Flatten([j \in 1..k |->
                            [i \in 1..Len(split_array[j]) |->
                               Score("predictor", split_array[j][i])]])
            /\ Len(predictions) = n
            /\ \A i \in 1..n : predictions[i] = Score("predictor", data[i])

\* predict has returned four predictions from two mini-batches of an array of
\* four rows that are not all the same, with rows = 3.
C14_Witness ==
  /\ nb_pc = "end"
  /\ Len(data) = 4
  /\ data[1] # data[4]
  /\ batch_rows = 3
  /\ Len(requests) = 2
  /\ Len(predictions) = 4

====
